---- MODULE Spec2Model ----
(***************************************************************************)
(* A model of clippy-lints (src/src/main.rs): the classifier               *)
(* (Setting::allow, Setting::split_group_exhaustive), the emitter          *)
(* (Config::to_toml) and the driver (main).                                *)
(*                                                                         *)
(* Three specifications share the variables:                               *)
(*   SpecFn      the two classifier functions applied to small catalogs    *)
(*   SpecRender  Config::to_toml applied to small configs                  *)
(*   Spec        main, run on the built-in policy against catalogs that    *)
(*               are perturbations of a catalog satisfying the policy      *)
(***************************************************************************)
EXTENDS Integers, Sequences, FiniteSets, TLC

VARIABLES
    pc,          \* position of the run
    argv,        \* main: the command line, the program's name first
    args,        \* Args {profile, workspace}
    all_lints,   \* AllLints (main: after from_response; SpecFn: the input)
    group,       \* SpecFn: the LintGroup argument
    lints,       \* SpecFn: the id list argument (exceptions.lints / lints)
    levels,      \* SpecFn: <<default_level, exceptions.level>>
    result,      \* SpecFn: the Result the function returned (or its panic)
    restriction_group,  \* main: the ExhausiveGroup of the restriction split
    settings,    \* main: the override settings built so far, by config group
    config,      \* main / SpecRender: the Config
    output,      \* main / SpecRender: the String to_toml returned
    stdout,      \* main: the bytes standard output has taken
    error,       \* main: the error main returned, or NoError
    evaluated    \* main: the fallible steps evaluated so far, in order

vars == <<pc, argv, args, all_lints, group, lints, levels, result, restriction_group,
          settings, config, output, stdout, error, evaluated>>

----------------------------------------------------------------------------
(* Data model *)

\* enum LintGroup: the variants, by their Rust names.
LintGroup == {"Cargo", "Complexity", "Correctness", "Nursery", "Pedantic",
              "Perf", "Restriction", "Style", "Suspicious", "Deprecated"}

\* enum LintLevel
LintLevel == {"Allow", "Warn", "Deny", "None"}

\* enum Profile
Profile == {"Publish", "Personal"}

\* LintGroup::as_str
group_as_str(g) ==
    CASE g = "Cargo" -> "cargo"
      [] g = "Complexity" -> "complexity"
      [] g = "Correctness" -> "correctness"
      [] g = "Nursery" -> "nursery"
      [] g = "Pedantic" -> "pedantic"
      [] g = "Perf" -> "perf"
      [] g = "Restriction" -> "restriction"
      [] g = "Style" -> "style"
      [] g = "Suspicious" -> "suspicious"
      [] g = "Deprecated" -> "deprecated"

\* LintLevel::as_str
level_as_str(l) ==
    CASE l = "Allow" -> "allow"
      [] l = "Warn" -> "warn"
      [] l = "Deny" -> "deny"
      [] l = "None" -> "none"

\* struct Lint
Lint(id, g) == [id |-> id, group |-> g]

\* enum PrioritySetting
Explicit(i) == [tag |-> "Explicit", value |-> i]
Unspecified == [tag |-> "Unspecified"]

\* impl From<Option<isize>> for PrioritySetting; an Option is <<>> or <<i>>.
priority_from(value) ==
    IF value = <<>> THEN Unspecified ELSE Explicit(value[1])

\* Setting::Single(SingleLintConfig {lint, priority, level})
Single(lint, priority, level) ==
    [tag |-> "Single", lint |-> lint, priority |-> priority, level |-> level]

\* Setting::Group(GroupConfig {group, priority, level})
Group(g, priority, level) ==
    [tag |-> "Group", group |-> g, priority |-> priority, level |-> level]

\* Setting::group
setting_group(g, level, priority) == Group(g, priority_from(priority), level)

\* struct Exceptions
Exceptions(level, ids) == [level |-> level, lints |-> ids]

\* struct ExhausiveGroup
ExhausiveGroup(defaults, exceptions) ==
    [defaults |-> defaults, exceptions |-> exceptions]

\* struct ConfigGroup; the optional comment is <<>> or <<text>>.
ConfigGroup(comment, ss) == [comment |-> comment, settings |-> ss]

\* Result<T>: Ok(v), Err(anyhow message); a panic is no Result at all.
Ok(v) == [tag |-> "Ok", value |-> v]
Err(msg) == [tag |-> "Err", msg |-> msg]
Panic(msg) == [tag |-> "Panic", msg |-> msg]

\* slice::contains / Vec::contains
Contains(s, x) == \E i \in 1..Len(s) : s[i] = x

----------------------------------------------------------------------------
(* Classifier *)

\* The iterator chain of Setting::allow: map each lint to Ok(Single) or Err and
\* collect into Result<Vec<_>>, which stops at the first Err.
RECURSIVE allow_collect(_, _, _, _, _)
allow_collect(lints_in, g, ids, i, acc) ==
    IF i > Len(ids) THEN Ok(acc)
    ELSE LET lint == ids[i]
             found == \E k \in 1..Len(lints_in) :
                          lints_in[k].id = lint /\ lints_in[k].group = g
         IN IF ~found
            THEN Err("lint " \o lint \o " not in group " \o group_as_str(g))
            ELSE allow_collect(lints_in, g, ids, i + 1,
                               Append(acc, Single(lint, Unspecified, "Allow")))

\* Setting::allow finding the lint by its id alone, under any group.
allow_any_group(lints_in, g, ids) ==
    LET missing == {i \in 1..Len(ids) :
                      ~\E k \in 1..Len(lints_in) : lints_in[k].id = ids[i]}
    IN IF missing = {}
       THEN Ok([i \in 1..Len(ids) |-> Single(ids[i], Unspecified, "Allow")])
       ELSE Err("lint " \o ids[CHOOSE i \in missing : \A j \in missing : i <= j]
                \o " not in group " \o group_as_str(g))

\* Setting::allow
allow(lints_in, g, ids) == allow_collect(lints_in, g, ids, 1, <<>>)

\* The member list without its filter: the ids of every catalog entry.
all_lints_any_group(lints_in, g) == [k \in 1..Len(lints_in) |-> lints_in[k].id]

\* all_lints.0.iter().filter(|lint| lint.group == group).map(|lint| &lint.id)
\* .collect(): the ids of the group's entries, in catalog order.
all_lints_in_group(lints_in, g) ==
    LET in_group == SelectSeq(lints_in, LAMBDA lint : lint.group = g)
    IN [k \in 1..Len(in_group) |-> in_group[k].id]

\* exceptions.lints.0.iter().find(|lint| !all_lints_in_group.contains(lint)):
\* the Option of the first id not in the group, <<>> or <<id>>.
find_not_in_group(ids, members) ==
    LET not_in == {i \in 1..Len(ids) : ~Contains(members, ids[i])}
    IN IF not_in = {} THEN <<>>
       ELSE <<ids[CHOOSE i \in not_in : \A j \in not_in : i <= j]>>

\* The classification giving an exception the default level.
classify_default_level(lint, default_level, exceptions) ==
    IF Contains(exceptions.lints, lint)
    THEN <<"Exception", Single(lint, Unspecified, default_level)>>
    ELSE <<"Default", Single(lint, Unspecified, default_level)>>

\* The closure of .map(|lint| ...): the classification of one member and its
\* setting.
classify(lint, default_level, exceptions) ==
    IF Contains(exceptions.lints, lint)
    THEN <<"Exception", Single(lint, Unspecified, exceptions.level)>>
    ELSE <<"Default", Single(lint, Unspecified, default_level)>>

\* What the closure of .fold(..) pushes on the half named `half`, over the
\* whole iteration: the settings classified `half`, in iteration order.
pushed(classified, half) ==
    LET of_half == SelectSeq(classified, LAMBDA c : c[1] = half)
    IN [k \in 1..Len(of_half) |-> of_half[k][2]]

\* The fold pushing every setting on acc.defaults, the exceptions too.
split_fold_all_defaults(classified) ==
    ExhausiveGroup([k \in 1..Len(classified) |-> classified[k][2]],
                   pushed(classified, "Exception"))

\* .fold(ExhausiveGroup {defaults: vec![], exceptions: vec![]}, ..): each
\* setting is pushed on acc.defaults or acc.exceptions, as classified.
split_fold(classified) ==
    ExhausiveGroup(pushed(classified, "Default"), pushed(classified, "Exception"))

\* usize::checked_sub: the Option <<>> on underflow.
checked_sub(a, b) == IF a < b THEN <<>> ELSE <<a - b>>

\* Setting::split_group_exhaustive
split_group_exhaustive(lints_in, g, default_level, exceptions) ==
    LET members == all_lints_in_group(lints_in, g)
        all_lints_in_group_len == Len(members)
        missing == find_not_in_group(exceptions.lints, members)
        len_1 == Len(exceptions.lints)
    IN IF missing # <<>>
       THEN Err("lint " \o missing[1] \o " not part of group " \o group_as_str(g))
       ELSE IF checked_sub(all_lints_in_group_len, len_1) = <<>>
       THEN Panic("exceptions are a subset of of all lints in group, checked above")
       ELSE Ok(split_fold([k \in 1..Len(members) |->
                              classify(members[k], default_level, exceptions)]))

----------------------------------------------------------------------------
(* Emitter *)

\* The write! of one Setting: the four arms of the match in Config::to_toml.
setting_line(setting) ==
    LET key == IF setting.tag = "Single" THEN setting.lint
               ELSE group_as_str(setting.group)
    IN IF setting.priority.tag = "Explicit"
       THEN key \o " = { level = \"" \o level_as_str(setting.level)
                \o "\", priority = " \o ToString(setting.priority.value) \o " }"
       ELSE key \o " = \"" \o level_as_str(setting.level) \o "\""

\* The iteration without the newline after the last setting of a non-final
\* group.
setting_output_no_blank(ss, k, last_group) ==
    LET last_setting == k = Len(ss)
    IN setting_line(ss[k]) \o (IF ~last_setting THEN "\n" ELSE "")

\* One iteration of the inner loop, while let Some(setting) =
\* iter_setting.next(): the setting's line and the newlines after it.
setting_output(ss, k, last_group) ==
    LET last_setting == k = Len(ss)
    IN setting_line(ss[k])
       \o (IF ~last_setting THEN "\n" ELSE "")
       \o (IF last_setting /\ ~last_group THEN "\n" ELSE "")

\* The inner loop over the settings lo..hi of a group: what the iterations
\* write, in order.
RECURSIVE render_settings(_, _, _, _)
render_settings(ss, lo, hi, last_group) ==
    IF lo > hi THEN ""
    ELSE IF lo = hi THEN setting_output(ss, lo, last_group)
    ELSE LET mid == (lo + hi) \div 2
         IN render_settings(ss, lo, mid, last_group)
            \o render_settings(ss, mid + 1, hi, last_group)

\* if let Some(ref comment) = group.comment { writeln!(output, "# {comment}") }
comment_line(comment) ==
    IF comment = <<>> THEN "" ELSE "# " \o comment[1] \o "\n"

\* The outer loop: while let Some(group) = iter_group.next().
RECURSIVE render_groups(_)
render_groups(groups) ==
    IF groups = <<>> THEN ""
    ELSE LET last_group == Tail(groups) = <<>>
         IN comment_line(Head(groups).comment)
            \o render_settings(Head(groups).settings, 1,
                               Len(Head(groups).settings), last_group)
            \o (IF ~last_group THEN "\n" ELSE "")
            \o render_groups(Tail(groups))

\* The header line chosen by args.workspace.
header(args_in) ==
    IF args_in.workspace THEN "[workspace.lints.clippy]\n" ELSE "[lints.clippy]\n"

\* Config::to_toml
to_toml(config_in, args_in) == header(args_in) \o render_groups(config_in)

----------------------------------------------------------------------------
(* Policy: the constants of main *)

\* The lints of the Exceptions passed to split_group_exhaustive for the
\* restriction group (level Warn, default level Allow).
restriction_exceptions == <<
    "allow_attributes", "allow_attributes_without_reason",
    "arithmetic_side_effects", "as_conversions",
    "assertions_on_result_states", "cfg_not_test", "clone_on_ref_ptr",
    "create_dir", "dbg_macro", "decimal_literal_representation",
    "default_numeric_fallback", "deref_by_slicing",
    "disallowed_script_idents", "else_if_without_else", "empty_drop",
    "empty_enum_variants_with_brackets", "empty_structs_with_brackets",
    "exit", "filetype_is_file", "float_arithmetic", "float_cmp_const",
    "fn_to_numeric_cast_any", "format_push_string", "get_unwrap",
    "indexing_slicing", "infinite_loop", "inline_asm_x86_att_syntax",
    "inline_asm_x86_intel_syntax", "integer_division", "iter_over_hash_type",
    "large_include_file", "let_underscore_must_use",
    "let_underscore_untyped", "little_endian_bytes", "lossy_float_literal",
    "map_err_ignore", "mem_forget", "missing_assert_message",
    "missing_asserts_for_indexing", "mixed_read_write_in_expression",
    "modulo_arithmetic", "multiple_inherent_impl",
    "multiple_unsafe_ops_per_block", "mutex_atomic", "panic",
    "partial_pub_fields", "pattern_type_mismatch", "print_stderr",
    "print_stdout", "pub_without_shorthand", "rc_buffer", "rc_mutex",
    "redundant_type_annotations", "renamed_function_params",
    "rest_pat_in_fully_bound_structs", "same_name_method",
    "self_named_module_files", "semicolon_inside_block", "str_to_string",
    "string_add", "string_lit_chars_any", "string_slice", "string_to_string",
    "suspicious_xor_used_as_pow", "tests_outside_test_module", "todo",
    "try_err", "undocumented_unsafe_blocks", "unimplemented",
    "unnecessary_safety_comment", "unnecessary_safety_doc",
    "unnecessary_self_imports", "unneeded_field_pattern",
    "unseparated_literal_suffix", "unused_result_ok", "unwrap_used",
    "use_debug", "verbose_file_reads" >>

pedantic_allows ==
    <<"too_many_lines", "must_use_candidate", "map_unwrap_or",
      "missing_errors_doc", "if_not_else">>

nursery_allows ==
    <<"missing_const_for_fn", "option_if_let_else", "redundant_pub_crate">>

complexity_allows == <<"too_many_arguments">>

style_allows == <<"new_without_default", "redundant_closure">>

\* cargo_lints with the arms of the match exchanged.
cargo_lints_swapped(profile) ==
    LET v == <<"multiple_crate_versions">>
    IN IF profile = "Publish" THEN Append(v, "cargo_common_metadata") ELSE v

\* let cargo_lints = { let mut v = vec![..]; match args.profile {..}; v }
cargo_lints(profile) ==
    LET v == <<"multiple_crate_versions">>
    IN IF profile = "Personal" THEN Append(v, "cargo_common_metadata") ELSE v

\* The settings of the first ConfigGroup, "enabled groups".
enabled_groups ==
    << setting_group("Correctness", "Deny", <<-1>>),
       setting_group("Suspicious", "Warn", <<-1>>),
       setting_group("Style", "Warn", <<-1>>),
       setting_group("Complexity", "Warn", <<-1>>),
       setting_group("Perf", "Warn", <<-1>>),
       setting_group("Cargo", "Warn", <<-1>>),
       setting_group("Pedantic", "Warn", <<-1>>),
       setting_group("Nursery", "Warn", <<-1>>) >>

\* The five Setting::allow calls of the Config literal, in evaluation order:
\* the comment of the ConfigGroup, the group and the id list.
overrides(profile) ==
    << [comment |-> "pedantic overrides", group |-> "Pedantic",
        lints |-> pedantic_allows],
       [comment |-> "nursery overrides", group |-> "Nursery",
        lints |-> nursery_allows],
       [comment |-> "complexity overrides", group |-> "Complexity",
        lints |-> complexity_allows],
       [comment |-> "style overrides", group |-> "Style",
        lints |-> style_allows],
       [comment |-> "cargo overrides", group |-> "Cargo",
        lints |-> cargo_lints(profile)] >>

\* Config(vec![...]): the eight ConfigGroups, from the override settings (one
\* sequence per Setting::allow call) and the restriction split.
build_config(override_settings, profile, split) ==
    << ConfigGroup(<<"enabled groups">>, enabled_groups) >>
    \o [k \in 1..Len(override_settings) |->
          ConfigGroup(<<overrides(profile)[k].comment>>, override_settings[k])]
    \o << ConfigGroup(<<"selected restrictions">>, split.exceptions),
          ConfigGroup(<<"restrictions explicit allows">>, split.defaults) >>

\* A usage error of the command line: clap writes its diagnostic to stderr
\* and the process exits with code 2.
ArgsError == [tag |-> "ArgsError"]

\* -h, alone or at the head of a cluster of short options, and --help.
is_help(a) == a = "--help" \/ (Len(a) >= 2 /\ SubSeq(a, 1, 2) = "-h")

\* #[derive(Parser)] struct Args, as clap reads the command line left to
\* right: -h / --help ends the parse with the help display; --workspace sets
\* the flag, once; --profile takes its value, one of the lowercase names of
\* enum Profile, from the next argument or after an equals sign, once; a lone
\* -- in last place ends the options; anything else is a usage error; at the
\* end --profile must have been given. `profile` is the Option <<>> or <<p>>.
RECURSIVE parse_scan(_, _, _, _)
parse_scan(argv_in, i, profile, workspace) ==
    IF i > Len(argv_in)
    THEN IF profile = <<>>
         THEN ArgsError
         ELSE Ok([profile |-> profile[1], workspace |-> workspace])
    ELSE LET a == argv_in[i]
         IN CASE is_help(a) -> [tag |-> "DisplayHelp"]
              [] a = "--workspace" ->
                   IF workspace
                   THEN ArgsError
                   ELSE parse_scan(argv_in, i + 1, profile, TRUE)
              [] a = "--profile" ->
                   IF profile # <<>> \/ i = Len(argv_in)
                   THEN ArgsError
                   ELSE IF argv_in[i + 1] = "publish"
                   THEN parse_scan(argv_in, i + 2, <<"Publish">>, workspace)
                   ELSE IF argv_in[i + 1] = "personal"
                   THEN parse_scan(argv_in, i + 2, <<"Personal">>, workspace)
                   ELSE ArgsError
              [] a \in {"--profile=publish", "--profile=personal"} ->
                   IF profile # <<>>
                   THEN ArgsError
                   ELSE parse_scan(argv_in, i + 1,
                                   IF a = "--profile=publish"
                                   THEN <<"Publish">> ELSE <<"Personal">>,
                                   workspace)
              [] a = "--" /\ i = Len(argv_in) ->
                   parse_scan(argv_in, i + 1, profile, workspace)
              [] OTHER -> ArgsError

\* Args::parse: the first element of the command line is the program's name,
\* the arguments follow it.
parse_args(argv_in) == parse_scan(argv_in, 2, <<>>, FALSE)

\* Path::file_name of the program's name: its last component, trailing
\* slashes and trailing "." components dropped; "" where there is none.
RECURSIVE file_name(_)
file_name(path) ==
    IF path = "" THEN ""
    ELSE IF SubSeq(path, Len(path), Len(path)) = "/"
    THEN file_name(SubSeq(path, 1, Len(path) - 1))
    ELSE LET slashes == {i \in 1..Len(path) : SubSeq(path, i, i) = "/"}
             start == IF slashes = {} THEN 1
                      ELSE 1 + CHOOSE i \in slashes : \A j \in slashes : j <= i
             last == SubSeq(path, start, Len(path))
         IN IF last = "." THEN file_name(SubSeq(path, 1, start - 1))
            ELSE IF last = ".." THEN ""
            ELSE last

\* The name clap gives the program in the usage line: the file name of the
\* first element of the command line, or the package's name without one.
bin_name(argv_in) ==
    IF argv_in = <<>> \/ file_name(argv_in[1]) = ""
    THEN "clippy-lints"
    ELSE file_name(argv_in[1])

\* The help clap generates for Args, as written to a file or a pipe.
help_text(name) ==
    "Usage: " \o name \o " [OPTIONS] --profile <PROFILE>\n\nOptions:\n"
    \o "      --profile <PROFILE>  [possible values: publish, personal]\n"
    \o "      --workspace          \n"
    \o "  -h, --help               Print help\n"

\* What standard output takes of a text written to it: all of it, or the
\* first bytes only when it has room for fewer (a closed pipe or a full
\* device has room for none, a file under a size limit for the limit).
accepted(sink, text) ==
    IF ~sink.limited \/ Len(text) <= sink.room THEN text
    ELSE SubSeq(text, 1, sink.room)

\* The write that finds no room is refused in one of two ways: it returns an
\* error to the program, or (a file size limit, the signal at its default
\* disposition, which main does not change) the process is killed by SIGXFSZ
\* inside the write.
refused(sink, text) == accepted(sink, text) # text
killed(sink, text) == refused(sink, text) /\ sink.signal

\* The end of a process killed by the signal: nothing of the program runs
\* after it, no panic and no exit code of its own.
Killed == [tag |-> "Killed", signal |-> "SIGXFSZ"]

\* struct LintResponse
LintResponse(id, g, default_level, version) ==
    [id |-> id, group |-> g, default_level |-> default_level, version |-> version]

\* AllLints::from_response
from_response(response) ==
    [k \in 1..Len(response) |-> Lint(response[k].id, response[k].group)]

----------------------------------------------------------------------------
(* Bounds and input sets *)

\* Longest catalog given to the classifier functions in SpecFn.
MaxCat == 3
\* Longest id list (exception list, override list) in SpecFn.
MaxList == 3
\* Most config groups of a Config in SpecRender.
MaxGroups == 2

\* All sequences over S of length at most n.
SeqsUpTo(S, n) == UNION {[1..k -> S] : k \in 0..n}

\* The value of a variable a specification does not use.
Unused == <<>>
NoError == [tag |-> "None"]

\* SpecFn: lint ids and groups of the small catalogs.
FnIds == {"a", "b", "c"}
FnGroups == {"Restriction", "Pedantic"}
FnLints == {Lint(id, g) : id \in FnIds, g \in FnGroups}
\* SpecFn: <<default_level, exceptions.level>> pairs.
FnLevels == {<<"Allow", "Warn">>, <<"Deny", "None">>}

\* SpecRender: the settings config groups are built from, one per match arm;
\* a config group holds any run of consecutive ones, the empty run included.
RenderSettings ==
    << Single("x", Unspecified, "Allow"),
       Group("Correctness", Explicit(-1), "Deny"),
       Single("y", Explicit(2), "Warn"),
       Group("Style", Unspecified, "None") >>
RenderRuns ==
    {SubSeq(RenderSettings, i, j) : i \in 1..Len(RenderSettings),
                                    j \in 0..Len(RenderSettings)}
RenderComments == {<<>>, <<"c">>}
RenderGroups ==
    {ConfigGroup(c, ss) : c \in RenderComments, ss \in RenderRuns}

----------------------------------------------------------------------------
(* SpecFn: Setting::split_group_exhaustive and Setting::allow on any small   *)
(* catalog, group, levels and id list.                                       *)

InitFn ==
    /\ pc = "input"
    /\ all_lints \in SeqsUpTo(FnLints, MaxCat)
    /\ lints \in SeqsUpTo(FnIds, MaxList)
    /\ group = Unused /\ levels = Unused /\ result = Unused
    /\ argv = Unused
    /\ args = Unused /\ restriction_group = Unused /\ settings = Unused
    /\ config = Unused /\ output = Unused /\ stdout = Unused
    /\ error = NoError /\ evaluated = Unused

CallSplit ==
    /\ pc = "input"
    /\ \E g \in FnGroups, lv \in FnLevels :
          /\ group' = g
          /\ levels' = lv
          /\ result' = split_group_exhaustive(all_lints, g, lv[1],
                                              Exceptions(lv[2], lints))
    /\ pc' = "split"
    /\ UNCHANGED <<argv, args, all_lints, lints, restriction_group, settings, config,
                   output, stdout, error, evaluated>>

CallAllow ==
    /\ pc = "input"
    /\ \E g \in FnGroups :
          /\ group' = g
          /\ result' = allow(all_lints, g, lints)
    /\ pc' = "allow"
    /\ UNCHANGED <<argv, args, all_lints, lints, levels, restriction_group, settings,
                   config, output, stdout, error, evaluated>>

NextFn == CallSplit \/ CallAllow

SpecFn == InitFn /\ [][NextFn]_vars

----------------------------------------------------------------------------
(* SpecRender: Config::to_toml on any small Config.                          *)

InitRender ==
    /\ pc = "config"
    /\ config \in SeqsUpTo(RenderGroups, MaxGroups)
    /\ args \in [profile : {"Publish"}, workspace : BOOLEAN]
    /\ argv = Unused
    /\ output = Unused
    /\ all_lints = Unused /\ lints = Unused
    /\ group = Unused /\ levels = Unused /\ result = Unused
    /\ restriction_group = Unused /\ settings = Unused /\ stdout = Unused
    /\ error = NoError /\ evaluated = Unused

Render ==
    /\ pc = "config"
    /\ output' = to_toml(config, args)
    /\ pc' = "rendered"
    /\ UNCHANGED <<argv, args, all_lints, group, lints, levels, result,
                   restriction_group, settings, config, stdout, error, evaluated>>

NextRender == Render

SpecRender == InitRender /\ [][NextRender]_vars

----------------------------------------------------------------------------
(* Spec: main. The catalogs the fetch may deliver.                           *)

Reverse(s) == [k \in 1..Len(s) |-> s[Len(s) + 1 - k]]

\* The decoded entries for a list of ids of one group.
Entries(ids, g) == [k \in 1..Len(ids) |-> LintResponse(ids[k], g, "Allow", "1.0")]

\* A catalog on which the policy is satisfied under both profiles: every lint
\* the policy names, under its group (the restriction ones not in the order of
\* the policy), and lints the policy does not name.
RefResponse ==
    Entries(<<"absolute_paths">>, "Restriction")
    \o Entries(<<"almost_swapped">>, "Correctness")
    \o Reverse(Entries(restriction_exceptions, "Restriction"))
    \o Entries(pedantic_allows, "Pedantic")
    \o Entries(nursery_allows, "Nursery")
    \o Entries(complexity_allows, "Complexity")
    \o Entries(style_allows, "Style")
    \o Entries(cargo_lints("Personal"), "Cargo")
    \o Entries(<<"wildcard_enum_match_arm">>, "Restriction")
    \o Entries(<<"should_assert_eq">>, "Deprecated")

\* Positions of RefResponse holding a lint of an override list.
OverridePositions ==
    {k \in 1..Len(RefResponse) :
        RefResponse[k].group \in {"Pedantic", "Nursery", "Complexity", "Style", "Cargo"}}

\* One edit of a catalog: nothing, an entry removed, an entry moved to another
\* group, or a copy of an entry added at the end under some group.
NoEdit == [kind |-> "none", at |-> 0, group |-> "Restriction"]
Drops(positions) == {[kind |-> "drop", at |-> k, group |-> "Restriction"] : k \in positions}
Edits ==
    {NoEdit}
    \cup Drops(1..Len(RefResponse))
    \cup {[kind |-> kd, at |-> k, group |-> g] :
            kd \in {"regroup", "copy"}, k \in 1..Len(RefResponse),
            g \in {"Restriction", "Pedantic"}}

\* The catalog r after the edits e1 and e2 (positions are those of r).
Edited(r, e1, e2) ==
    LET es == {e1, e2}
        dropped(k) == \E e \in es : e.kind = "drop" /\ e.at = k
        entry(k) ==
            IF \E e \in es : e.kind = "regroup" /\ e.at = k
            THEN LET e == CHOOSE e \in es : e.kind = "regroup" /\ e.at = k
                 IN LintResponse(r[k].id, e.group, r[k].default_level, r[k].version)
            ELSE r[k]
        marked == [k \in 1..Len(r) |-> [keep |-> ~dropped(k), entry |-> entry(k)]]
        kept == SelectSeq(marked, LAMBDA m : m.keep)
        copy(e) == IF e.kind = "copy"
                   THEN <<LintResponse(r[e.at].id, e.group,
                                       r[e.at].default_level, r[e.at].version)>>
                   ELSE <<>>
    IN [k \in 1..Len(kept) |-> kept[k].entry] \o copy(e1) \o copy(e2)

\* The catalogs of Spec: RefResponse after one edit, after one removal and the
\* removal of an override lint, and the empty catalog.
Responses ==
    {Edited(RefResponse, e, NoEdit) : e \in Edits}
    \cup {Edited(RefResponse, e1, e2) :
            e1 \in Drops(1..Len(RefResponse)), e2 \in Drops(OverridePositions)}
    \cup {<<>>}

----------------------------------------------------------------------------
(* Spec: main, one action per step.                                          *)

\* The rooms of a standard output that has a limit: less than the help text,
\* and more than the help text but less than any rendered output.
HelpLimit == 100
StdoutLimit == 1000

\* The standard outputs of Spec, none of them a terminal: one that takes
\* everything, and for each room (none, HelpLimit, StdoutLimit) one that
\* refuses the rest with an error and one that refuses it with the signal.
Sinks ==
    {[limited |-> FALSE, room |-> 0, signal |-> FALSE]}
    \cup [limited : {TRUE}, room : {0, HelpLimit, StdoutLimit}, signal : BOOLEAN]

\* The command lines of Spec: with and without each option, in either order,
\* a value --profile does not have or lacks, an option and a positional Args
\* does not have, a help request alone (also in a cluster, and under a
\* program name with a directory or empty) and around valid options, and no
\* argument at all.
Argvs ==
    { <<"clippy-lints">>,
      <<"clippy-lints", "--profile", "publish">>,
      <<"clippy-lints", "--profile", "personal">>,
      <<"clippy-lints", "--workspace", "--profile=publish">>,
      <<"clippy-lints", "--profile", "personal", "--workspace">>,
      <<"clippy-lints", "--workspace">>,
      <<"clippy-lints", "--profile">>,
      <<"clippy-lints", "--profile", "bogus">>,
      <<"clippy-lints", "--profile", "-h">>,
      <<"clippy-lints", "--profile", "--help">>,
      <<"clippy-lints", "--version">>,
      <<"clippy-lints", "stray">>,
      <<"clippy-lints", "--help">>,
      <<"clippy-lints", "-h">>,
      <<"clippy-lints", "-hx">>,
      <<"/usr/bin/clippy-lints", "--help">>,
      <<"", "-h">>,
      <<"clippy-lints", "--help", "--profile", "publish">>,
      <<"clippy-lints", "--profile", "personal", "-h">> }

Init ==
    /\ pc = "args"
    /\ argv \in Argvs
    /\ args = Unused
    /\ all_lints = Unused /\ restriction_group = Unused
    /\ settings = <<>>
    /\ config = Unused /\ output = Unused
    /\ stdout = ""
    /\ error = NoError
    /\ evaluated = <<>>
    /\ group = Unused /\ lints = Unused /\ levels = Unused /\ result = Unused

\* let args = Args::parse(): the parsed Args; or, on a help request, the help
\* text written to stdout, an error of that write ignored, and exit code 0
\* (unless the write is refused with the signal, which kills the process);
\* or, on a usage error, a diagnostic on stderr and exit code 2. Only the
\* first goes on to the fetch.
ParseArgs ==
    /\ pc = "args"
    /\ \E sink \in Sinks :
       LET r == parse_args(argv)
           help == help_text(bin_name(argv))
           dies == r.tag = "DisplayHelp" /\ killed(sink, help)
       IN /\ args' = IF r.tag = "Ok" THEN r.value ELSE args
          /\ stdout' = IF r.tag = "DisplayHelp"
                       THEN stdout \o accepted(sink, help)
                       ELSE stdout
          /\ error' = IF r.tag = "ArgsError" THEN r
                      ELSE IF dies THEN Killed
                      ELSE error
          /\ pc' = CASE r.tag = "Ok" -> "start"
                     [] r.tag = "DisplayHelp" /\ ~dies -> "help"
                     [] r.tag = "DisplayHelp" /\ dies -> "killed"
                     [] r.tag = "ArgsError" -> "usage"
    /\ UNCHANGED <<argv, all_lints, group, lints, levels, result,
                   restriction_group, settings, config, output, evaluated>>

\* ureq::get(..).call()?.into_json::<Response>()? succeeds;
\* let all_lints = AllLints::from_response(&response).
Fetch ==
    /\ pc = "start"
    /\ \E response \in Responses : all_lints' = from_response(response)
    /\ evaluated' = Append(evaluated, "fetch")
    /\ pc' = "split"
    /\ UNCHANGED <<argv, args, group, lints, levels, result, restriction_group,
                   settings, config, output, stdout, error>>

\* .call()? or .into_json()? fails: main returns the error.
FetchFail ==
    /\ pc = "start"
    /\ \E kind \in {"HttpError", "DecodeError"} : error' = [tag |-> kind]
    /\ evaluated' = Append(evaluated, "fetch")
    /\ pc' = "failed"
    /\ UNCHANGED <<argv, args, all_lints, group, lints, levels, result,
                   restriction_group, settings, config, output, stdout>>

\* let restriction_group = Setting::split_group_exhaustive(..)?;
SplitRestriction ==
    /\ pc = "split"
    /\ LET r == split_group_exhaustive(all_lints, "Restriction", "Allow",
                                       Exceptions("Warn", restriction_exceptions))
       IN /\ restriction_group' = IF r.tag = "Ok" THEN r.value ELSE restriction_group
          /\ error' = IF r.tag = "Ok" THEN error ELSE r
          /\ pc' = CASE r.tag = "Ok" -> "overrides"
                     [] r.tag = "Err" -> "failed"
                     [] r.tag = "Panic" -> "panicked"
    /\ evaluated' = Append(evaluated, "restriction")
    /\ UNCHANGED <<argv, args, all_lints, group, lints, levels, result, settings,
                   config, output, stdout>>

\* The override step writing what it has so far to stdout when it fails.
AllowOverride_prints ==
    /\ pc = "overrides"
    /\ LET o == overrides(args.profile)[Len(settings) + 1]
           r == allow(all_lints, o.group, o.lints)
       IN /\ settings' = IF r.tag = "Ok" THEN Append(settings, r.value) ELSE settings
          /\ error' = IF r.tag = "Ok" THEN error ELSE r
          /\ stdout' = IF r.tag = "Ok" THEN stdout
                       ELSE stdout \o header(args) \o "\n"
          /\ pc' = IF r.tag # "Ok" THEN "failed"
                   ELSE IF Len(settings) + 1 = Len(overrides(args.profile))
                   THEN "config" ELSE "overrides"
          /\ evaluated' = Append(evaluated, group_as_str(o.group))
    /\ UNCHANGED <<argv, args, all_lints, group, lints, levels, result,
                   restriction_group, config, output>>

\* The override step going on to the later lists after a failure, and
\* returning the last error.
AllowOverride_continues ==
    /\ pc = "overrides"
    /\ LET o == overrides(args.profile)[Len(settings) + 1]
           r == allow(all_lints, o.group, o.lints)
           last == Len(settings) + 1 = Len(overrides(args.profile))
       IN /\ settings' = Append(settings, IF r.tag = "Ok" THEN r.value ELSE <<>>)
          /\ error' = IF r.tag = "Ok" THEN error ELSE r
          /\ pc' = IF ~last THEN "overrides"
                   ELSE IF error' # NoError THEN "failed" ELSE "config"
          /\ evaluated' = Append(evaluated, group_as_str(o.group))
    /\ UNCHANGED <<argv, args, all_lints, group, lints, levels, result,
                   restriction_group, config, output, stdout>>

\* settings: Setting::allow(&all_lints, group, list)? of the next ConfigGroup of
\* the Config literal.
AllowOverride ==
    /\ pc = "overrides"
    /\ LET o == overrides(args.profile)[Len(settings) + 1]
           r == allow(all_lints, o.group, o.lints)
       IN /\ settings' = IF r.tag = "Ok" THEN Append(settings, r.value) ELSE settings
          /\ error' = IF r.tag = "Ok" THEN error ELSE r
          /\ pc' = IF r.tag # "Ok" THEN "failed"
                   ELSE IF Len(settings) + 1 = Len(overrides(args.profile))
                   THEN "config" ELSE "overrides"
          /\ evaluated' = Append(evaluated, group_as_str(o.group))
    /\ UNCHANGED <<argv, args, all_lints, group, lints, levels, result,
                   restriction_group, config, output, stdout>>

\* let config = Config(vec![..]);
BuildConfig ==
    /\ pc = "config"
    /\ config' = build_config(settings, args.profile, restriction_group)
    /\ pc' = "render"
    /\ UNCHANGED <<argv, args, all_lints, group, lints, levels, result,
                   restriction_group, settings, output, stdout, error, evaluated>>

\* let output = config.to_toml(&args);
ToToml ==
    /\ pc = "render"
    /\ output' = to_toml(config, args)
    /\ pc' = "print"
    /\ UNCHANGED <<argv, args, all_lints, group, lints, levels, result,
                   restriction_group, settings, config, stdout, error, evaluated>>

\* println!("{output}"); Ok(()): the output and a newline go to stdout, and
\* main returns Ok; when stdout does not take all of it, what it took is
\* written and either println! panics on the error of the write or the
\* process is killed by the signal inside the write.
Println ==
    /\ pc = "print"
    /\ \E sink \in Sinks :
       LET text == output \o "\n"
           written == accepted(sink, text)
       IN /\ stdout' = stdout \o written
          /\ error' = IF ~refused(sink, text) THEN error
                      ELSE IF killed(sink, text) THEN Killed
                      ELSE Panic("failed printing to stdout")
          /\ pc' = IF ~refused(sink, text) THEN "done"
                   ELSE IF killed(sink, text) THEN "killed"
                   ELSE "panicked"
    /\ UNCHANGED <<argv, args, all_lints, group, lints, levels, result,
                   restriction_group, settings, config, output, evaluated>>

Next ==
    \/ ParseArgs
    \/ Fetch
    \/ FetchFail
    \/ SplitRestriction
    \/ AllowOverride
    \/ BuildConfig
    \/ ToToml
    \/ Println

Spec == Init /\ [][Next]_vars

----------------------------------------------------------------------------
(* Properties of the classifier functions, verified under SpecFn.              *)

Range(s) == {s[i] : i \in 1..Len(s)}

\* {e.id | e in catalog, e.group = g}
GroupIds(catalog, g) ==
    {catalog[i].id : i \in {i \in 1..Len(catalog) : catalog[i].group = g}}

\* The lint ids of a sequence of Single settings.
SettingIds(ss) == {ss[i].lint : i \in 1..Len(ss)}

\* The number of positions of s holding x.
Count(s, x) == Cardinality({i \in 1..Len(s) : s[i] = x})

\* The positions of the id list whose id is no id of a catalog entry of group g.
NotInGroup(catalog, g, ids) ==
    LET members == GroupIds(catalog, g)
    IN {i \in 1..Len(ids) : ids[i] \notin members}

\* The first of a non-empty set of positions.
First(positions) == CHOOSE i \in positions : \A j \in positions : i <= j

\* The textual name of the two groups SpecFn calls the functions with.
FnGroupName(g) == IF g = "Restriction" THEN "restriction" ELSE "pedantic"

\* The reference filter of the exhaustive split: the entries of `catalog`, in
\* order, of group g whose id is (exception = TRUE) or is not (FALSE) in the
\* id list, each as a Single setting at `level` with no priority.
RECURSIVE RefHalf(_, _, _, _, _)
RefHalf(catalog, g, ids, exception, level) ==
    IF catalog = <<>> THEN <<>>
    ELSE LET e == Head(catalog)
             rest == RefHalf(Tail(catalog), g, ids, exception, level)
         IN IF e.group = g /\ ((e.id \in Range(ids)) <=> exception)
            THEN <<[tag |-> "Single", lint |-> e.id,
                    priority |-> [tag |-> "Unspecified"], level |-> level]>> \o rest
            ELSE rest

SplitDone == pc = "split"
SplitOk == pc = "split" /\ result.tag = "Ok"
AllowDone == pc = "allow"

\* C1: whenever split_group_exhaustive returns Ok, the ids of `defaults` united
\* with the ids of `exceptions` are exactly the ids of the catalog entries of
\* group G, and no id is in both halves.
C1_Coverage ==
    SplitOk =>
        /\ SettingIds(result.value.defaults) \cup SettingIds(result.value.exceptions)
             = GroupIds(all_lints, group)
        /\ SettingIds(result.value.defaults) \cap SettingIds(result.value.exceptions)
             = {}

\* C1's case: an Ok split with both halves non-empty, of a catalog that also
\* holds an entry of another group, under an id the group has too.
C1_Witness ==
    /\ SplitOk
    /\ result.value.defaults # <<>> /\ result.value.exceptions # <<>>
    /\ \E i \in 1..Len(all_lints) :
          all_lints[i].group # group /\ all_lints[i].id \in GroupIds(all_lints, group)

\* C2, as stated: split_group_exhaustive fails (does not return Ok) if and only
\* if some id of I_e is not the id of a catalog entry of group G, and the failure
\* is the error naming the first such id of I_e and the group, carrying no
\* ExhausiveGroup.
C2_FailsIffNotInGroup ==
    SplitDone =>
        /\ (result.tag # "Ok") <=> (NotInGroup(all_lints, group, lints) # {})
        /\ (result.tag # "Ok") =>
              result = [tag |-> "Err",
                        msg |-> "lint " \o lints[First(NotInGroup(all_lints, group, lints))]
                                \o " not part of group " \o FnGroupName(group)]

\* C3, as stated: when every id of I_e is in the group's member list M, the
\* split returns Ok, also when an id occurs more than once in I_e, and each such
\* id has as many settings in `exceptions` as it has occurrences in M.
C3_DuplicateIdsOk ==
    (SplitDone /\ NotInGroup(all_lints, group, lints) = {}) =>
        /\ result.tag = "Ok"
        /\ \A id \in Range(lints) :
              Count([k \in 1..Len(result.value.exceptions) |->
                        result.value.exceptions[k].lint], id)
                = Count(all_lints, [id |-> id, group |-> group])

\* C4: on success the result is the reference filter of the catalog, in catalog
\* order: `exceptions` the group's entries whose id is in I_e, at E.level,
\* `defaults` those whose id is not, at default_level, all with no priority.
C4_ReferenceFilter ==
    SplitOk =>
        /\ result.value.exceptions = RefHalf(all_lints, group, lints, TRUE, levels[2])
        /\ result.value.defaults = RefHalf(all_lints, group, lints, FALSE, levels[1])

\* C4's case: an Ok split whose two exceptions stand in I_e in the opposite
\* order of the catalog, with a default as well.
C4_Witness ==
    /\ SplitOk
    /\ Len(result.value.exceptions) >= 2 /\ result.value.defaults # <<>>
    /\ Len(lints) >= 2
    /\ lints[1] = result.value.exceptions[2].lint
    /\ lints[2] = result.value.exceptions[1].lint
    /\ lints[1] # lints[2]

\* The positions of the override list whose id is not the id of a catalog entry
\* of the named group.
AllowMissing ==
    {i \in 1..Len(lints) :
        ~\E k \in 1..Len(all_lints) :
            all_lints[k].id = lints[i] /\ all_lints[k].group = group}

\* C5: Setting::allow succeeds exactly when every listed id is the id of a
\* catalog entry of the named group; it then yields one Single setting per
\* listed id, in list order, at level allow with no priority; otherwise it
\* yields the error naming the first failing id of the list and the group, and
\* no settings.
C5_AllowValidation ==
    AllowDone =>
        /\ (result.tag = "Ok") <=> (AllowMissing = {})
        /\ (result.tag = "Ok") =>
              result.value = [i \in 1..Len(lints) |->
                                [tag |-> "Single", lint |-> lints[i],
                                 priority |-> [tag |-> "Unspecified"],
                                 level |-> "Allow"]]
        /\ (result.tag # "Ok") =>
              result = [tag |-> "Err",
                        msg |-> "lint " \o lints[First(AllowMissing)]
                                \o " not in group " \o FnGroupName(group)]

\* C5's case: a list rejected on its second id, which the catalog holds only
\* under another group, while a later id fails as well.
C5_Witness ==
    /\ AllowDone /\ result.tag = "Err"
    /\ Len(lints) = 3
    /\ AllowMissing = {2, 3}
    /\ lints[2] # lints[3]
    /\ \E k \in 1..Len(all_lints) : all_lints[k].id = lints[2]

----------------------------------------------------------------------------
(* Properties of the emitter, verified under SpecRender.                       *)

\* The positions of the newline characters of a string, in increasing order.
NewlinePositions(s) ==
    LET nl == {i \in 1..Len(s) : SubSeq(s, i, i) = "\n"}
    IN [k \in 1..Cardinality(nl) |->
          CHOOSE i \in nl : Cardinality({j \in nl : j <= i}) = k]

\* A string cut at its newlines: the lines that end with a newline (without
\* it), and what follows the last newline ("" when the string ends with one).
Cut(s) ==
    LET at == NewlinePositions(s)
    IN [terminated |-> [k \in 1..Len(at) |->
                          SubSeq(s, (IF k = 1 THEN 1 ELSE at[k - 1] + 1), at[k] - 1)],
        rest |-> IF Len(at) = 0 THEN s ELSE SubSeq(s, at[Len(at)] + 1, Len(s))]

\* The lines a ConfigGroup stands for: its comment line if it has a comment,
\* then one line per Setting.
GroupLines(g) ==
    (IF g.comment = <<>> THEN <<>> ELSE <<"# " \o g.comment[1]>>)
    \o [k \in 1..Len(g.settings) |-> setting_line(g.settings[k])]

\* The lines of the groups from the i-th on, one blank line between every two
\* consecutive groups and none after the last.
RECURSIVE LayoutFrom(_, _)
LayoutFrom(groups, i) ==
    IF i > Len(groups) THEN <<>>
    ELSE GroupLines(groups[i])
         \o (IF i < Len(groups) THEN <<"">> ELSE <<>>)
         \o LayoutFrom(groups, i + 1)

Rendered == pc = "rendered"

\* C7: the output of to_toml is the header line, then per ConfigGroup, in
\* order, its comment line if any and exactly one line per Setting, with
\* exactly one blank line between every two consecutive ConfigGroups (so two
\* newlines after the last Setting of a non-final group) and nothing after the
\* final group: every line is ended by one newline except the last Setting line
\* of the final group, which ends the output. Groups without settings included.
C7_Layout ==
    Rendered =>
        LET cut == Cut(output)
            lines == cut.terminated
        IN /\ lines \o (IF cut.rest = "" THEN <<>> ELSE <<cut.rest>>)
                = <<(IF args.workspace THEN "[workspace.lints.clippy]"
                                       ELSE "[lints.clippy]")>>
                  \o LayoutFrom(config, 1)
           /\ (cut.rest # "")
                <=> (config # <<>> /\ config[Len(config)].settings # <<>>)
           /\ \A i \in 1..Len(config) :
                 (i < Len(config) /\ config[i].settings # <<>>) =>
                    \E k \in 2..Len(lines) :
                       /\ lines[k] = ""
                       /\ lines[k - 1]
                            = setting_line(config[i].settings[Len(config[i].settings)])

\* C7's case: a rendered Config whose first group has several settings and
\* whose final group has neither comment nor settings.
C7_Witness ==
    /\ Rendered
    /\ Len(config) >= 2
    /\ Len(config[1].settings) >= 2
    /\ config[Len(config)].settings = <<>>
    /\ config[Len(config)].comment = <<>>

----------------------------------------------------------------------------
(* Properties of main, verified under Spec.                                    *)

\* The Config has been built: classification succeeded.
Classified == pc \in {"render", "print", "done"}

\* Single settings at level allow, with no priority, for a list of ids.
AllowSettings(ids) ==
    [i \in 1..Len(ids) |->
        [tag |-> "Single", lint |-> ids[i],
         priority |-> [tag |-> "Unspecified"], level |-> "Allow"]]

\* A Group setting with priority Explicit(-1).
EnabledGroup(g, level) ==
    [tag |-> "Group", group |-> g,
     priority |-> [tag |-> "Explicit", value |-> -1], level |-> level]

\* C6: whenever classification succeeds the Config is the eight config groups
\* in the fixed order: enabled groups (eight Group settings, priority
\* Explicit(-1)), the pedantic, nursery, complexity, style and cargo overrides,
\* selected restrictions (the `exceptions` half of the restriction split) and
\* restrictions explicit allows (the `defaults` half); the cargo overrides are
\* [multiple_crate_versions, cargo_common_metadata] under profile personal and
\* [multiple_crate_versions] under publish, and no other group depends on the
\* profile.
C6_ConfigShape ==
    Classified =>
        /\ Len(config) = 8
        /\ [i \in 1..8 |-> config[i].comment]
             = << <<"enabled groups">>, <<"pedantic overrides">>,
                  <<"nursery overrides">>, <<"complexity overrides">>,
                  <<"style overrides">>, <<"cargo overrides">>,
                  <<"selected restrictions">>, <<"restrictions explicit allows">> >>
        /\ config[1].settings
             = << EnabledGroup("Correctness", "Deny"), EnabledGroup("Suspicious", "Warn"),
                  EnabledGroup("Style", "Warn"), EnabledGroup("Complexity", "Warn"),
                  EnabledGroup("Perf", "Warn"), EnabledGroup("Cargo", "Warn"),
                  EnabledGroup("Pedantic", "Warn"), EnabledGroup("Nursery", "Warn") >>
        /\ config[2].settings
             = AllowSettings(<<"too_many_lines", "must_use_candidate", "map_unwrap_or",
                               "missing_errors_doc", "if_not_else">>)
        /\ config[3].settings
             = AllowSettings(<<"missing_const_for_fn", "option_if_let_else",
                               "redundant_pub_crate">>)
        /\ config[4].settings = AllowSettings(<<"too_many_arguments">>)
        /\ config[5].settings
             = AllowSettings(<<"new_without_default", "redundant_closure">>)
        /\ config[6].settings
             = IF args.profile = "Personal"
               THEN AllowSettings(<<"multiple_crate_versions", "cargo_common_metadata">>)
               ELSE AllowSettings(<<"multiple_crate_versions">>)
        /\ config[7].settings = restriction_group.exceptions
        /\ config[8].settings = restriction_group.defaults
        /\ \A i \in 1..Len(config[7].settings) : config[7].settings[i].level = "Warn"
        /\ \A i \in 1..Len(config[8].settings) : config[8].settings[i].level = "Allow"
        /\ SettingIds(config[7].settings) \cup SettingIds(config[8].settings)
             = GroupIds(all_lints, "Restriction")

\* C6's case: a finished run under profile personal whose restriction split has
\* both halves.
C6_Witness ==
    /\ pc = "done"
    /\ args.profile = "Personal"
    /\ Len(config[6].settings) = 2
    /\ config[7].settings # <<>> /\ config[8].settings # <<>>

\* The fallible steps of a run that succeeds, in evaluation order.
AllSteps ==
    <<"fetch", "restriction", "pedantic", "nursery", "complexity", "style", "cargo">>

\* C8, as stated: stdout is written at most once, and only after the fetch
\* and decode, the restriction split and the five override validations have
\* all succeeded; a run that ended with an error has written nothing, and a
\* run that succeeded has written the rendered output, complete.
C8_StdoutOnlyAfterClassification ==
    /\ stdout # "" => (evaluated = AllSteps /\ Len(settings) = 5)
    /\ error.tag \in {"HttpError", "DecodeError", "Err"} => stdout = ""
    /\ pc = "done" => stdout = output \o "\n"

\* The options a command line can hold, complete, without a usage error.
OptionPrefixes ==
    LET P == {<<"--profile", "publish">>, <<"--profile", "personal">>,
              <<"--profile=publish">>, <<"--profile=personal">>}
        W == <<"--workspace">>
    IN {<<>>, W} \cup P \cup {W \o p : p \in P} \cup {p \o W : p \in P}

\* The command line asks for help before anything in it is a usage error.
HelpRequested ==
    \E i \in 2..Len(argv) :
        /\ argv[i] \in {"--help", "-h", "-hx"}
        /\ SubSeq(argv, 2, i - 1) \in OptionPrefixes

\* s is the beginning of t.
IsPrefix(s, t) == Len(s) <= Len(t) /\ SubSeq(t, 1, Len(s)) = s

\* An error main returns, a usage error, or a panic of the classification:
\* the ends of a run before anything is rendered.
EarlyError ==
    error \notin {NoError, Killed, Panic("failed printing to stdout")}

\* C8, amended: stdout receives at most one text, possibly cut short. A run
\* whose command line asks for help writes the help text, or a beginning of
\* it when stdout takes no more, and nothing else, before any fetch; it exits
\* with code 0 unless the signal of the refused write kills it. In every other
\* run stdout is written only after the fetch and decode, the restriction
\* split and the five override validations have all succeeded; a run that
\* ended with an error (usage, fetch, decode, ExceptionNotInGroup,
\* UnknownLintInGroup) has written nothing; a run that succeeded has written
\* the rendered output, complete, and its newline; and a run whose write of
\* the output was refused has not succeeded (println! has panicked, or the
\* signal has killed the process) with a proper beginning of it written.
C8_StdoutOnlyOnSuccess ==
    LET asked == pc # "args" /\ HelpRequested
        help == help_text(bin_name(argv))
    IN /\ asked <=> (pc = "help" \/ (pc = "killed" /\ evaluated = <<>>))
       /\ asked =>
             /\ IsPrefix(stdout, help)
             /\ evaluated = <<>> /\ all_lints = Unused
             /\ error \in {NoError, Killed}
             /\ error = NoError <=> pc = "help"
             /\ error = Killed => stdout # help
       /\ (stdout # "" /\ ~asked) =>
             /\ pc \in {"done", "panicked", "killed"}
             /\ evaluated = AllSteps
             /\ Len(settings) = 5
             /\ output = to_toml(config, args)
             /\ IsPrefix(stdout, output \o "\n")
       /\ pc = "done" => (error = NoError /\ stdout = output \o "\n")
       /\ EarlyError => (stdout = "" /\ pc \in {"usage", "failed", "panicked"})
       /\ (error # NoError /\ ~EarlyError /\ ~asked) =>
             /\ pc \in {"panicked", "killed"}
             /\ error = Killed <=> pc = "killed"
             /\ evaluated = AllSteps
             /\ IsPrefix(stdout, output \o "\n")
             /\ stdout # output \o "\n"
       /\ pc \in {"usage", "failed", "panicked", "killed"} => error # NoError
       /\ pc = "usage" => evaluated = <<>>

\* C8's case: a run that was asked for help after a valid --profile and has
\* written the help text, nothing fetched and nothing classified.
C8_Witness ==
    /\ pc = "help"
    /\ Len(argv) > 2
    /\ argv[2] = "--profile"
    /\ stdout = help_text("clippy-lints")
    /\ all_lints = Unused
    /\ evaluated = <<>>

\* The ids of the restriction exception list that are no restriction lint of
\* the catalog, by position.
RestrictionMissing == NotInGroup(all_lints, "Restriction", restriction_exceptions)

\* The positions of the k-th override list whose id the catalog does not hold
\* under the list's group.
OverrideMissing(k) ==
    LET o == overrides(args.profile)[k]
    IN {i \in 1..Len(o.lints) :
          ~\E e \in Range(all_lints) : e.id = o.lints[i] /\ e.group = o.group}

FailingLists == {k \in 1..5 : OverrideMissing(k) # {}}

\* C9: the run reports one failure, the first in evaluation order: a missing
\* restriction exception before any override list, else the first missing id of
\* the earliest failing list in the order pedantic, nursery, complexity, style,
\* cargo; no list after the failing step is evaluated, and the run succeeds
\* only when nothing is missing.
C9_FirstFailureWins ==
    /\ (pc = "failed" /\ error.tag = "Err") =>
          IF RestrictionMissing # {}
          THEN /\ error.msg = "lint " \o restriction_exceptions[First(RestrictionMissing)]
                              \o " not part of group restriction"
               /\ evaluated = <<"fetch", "restriction">>
               /\ settings = <<>>
          ELSE /\ FailingLists # {}
               /\ LET k == First(FailingLists)
                      o == overrides(args.profile)[k]
                  IN /\ error.msg = "lint " \o o.lints[First(OverrideMissing(k))]
                                    \o " not in group " \o AllSteps[k + 2]
                     /\ evaluated = SubSeq(AllSteps, 1, k + 2)
                     /\ Len(settings) = k - 1
    /\ Classified => (RestrictionMissing = {} /\ FailingLists = {})
    /\ pc = "overrides" => RestrictionMissing = {}

\* C9's case: a failed run on a non-empty catalog that lacks both a restriction
\* exception and an override lint.
C9_Witness ==
    /\ pc = "failed" /\ error.tag = "Err"
    /\ all_lints # <<>>
    /\ RestrictionMissing # {}
    /\ FailingLists # {}

\* The lint ids of the Single settings of the Config, in order: the five
\* override groups and the two restriction halves.
SingleIds ==
    LET ss == config[2].settings \o config[3].settings \o config[4].settings
              \o config[5].settings \o config[6].settings \o config[7].settings
              \o config[8].settings
    IN [i \in 1..Len(ss) |-> ss[i].lint]

\* The ids of the catalog entries are pairwise distinct.
DistinctCatalogIds ==
    \A i, j \in 1..Len(all_lints) : all_lints[i].id = all_lints[j].id => i = j

\* C10: under the built-in policy, when the ids of the catalog are pairwise
\* distinct and classification succeeds, no lint id stands in more than one
\* Single setting of the Config.
C10_AtMostOnePosition ==
    (Classified /\ DistinctCatalogIds) =>
        LET ids == SingleIds
        IN \A i, j \in 1..Len(ids) : ids[i] = ids[j] => i = j

\* C10's case: a finished run on a catalog of distinct ids, every one of which
\* not in the enabled-groups-only groups has its Single setting.
C10_Witness ==
    /\ pc = "done" /\ DistinctCatalogIds
    /\ Len(SingleIds) >= Len(restriction_exceptions) + 13
    /\ config[8].settings # <<>>

====
